---- MODULE Spec2Model ----
(***************************************************************************)
(* A model of GpgME++'s value types and helpers with bit-level contracts:  *)
(*   - GpgME::Error (src/src/error.cpp): one encoded integer holding a     *)
(*     source field and a code field, classified as success / canceled /   *)
(*     error (SpecError); its errno operations (SpecErrno, SpecThreads)    *)
(*     and its message rendering (SpecMsg);                                *)
(*   - GpgME::Flags<Enum, _Nb> (src/src/flags.h): a bit set over the       *)
(*     underlying integer of a scoped enum (SpecFlags, SpecList);          *)
(*   - _gpgmepp::split_into_string_views (src/src/util.cpp), modelled      *)
(*     step by step (SpecSplit).                                           *)
(* The components share no state, so each specification moves one of them  *)
(* and holds the others still.                                             *)
(***************************************************************************)
EXTENDS Integers, Sequences, FiniteSets

VARIABLES
    mErr,     \* Error::mErr, the encoded error of the Error object
    errOp,    \* which operation built the Error object
    inCode,   \* the first argument of that operation
    inSrc,    \* the source argument of that operation
    Nb,       \* the template parameter _Nb of this instantiation of Flags
    mFlags,   \* Flags::mFlags, the stored integer of the Flags object
    op,       \* the last operation applied to the Flags object
    arg,      \* the underlying value of that operation's operand
    pre,      \* mFlags before that operation
    lst,      \* the initializer list of the last list construction
    closed,   \* TRUE while every value fed to the object was below 2^_Nb
    nullText, \* whether split_into_string_views was handed a null pointer
    text,     \* the characters of its text argument before the terminating NUL
    delimiter,\* its delimiter argument (0 is the NUL character)
    scan,     \* its local s, as an index into the text (0 is the first char)
    views,    \* its local result: the views emitted so far, <<start, size>>
    splitPc,  \* where the call stands: "entry", "loop", "returned", "fault"
    errno,    \* the C library's errno of each thread
    lastSet,  \* per thread, the value its last setErrno / setSystemError wrote
    lastOp,   \* per thread, "start", "set" (it wrote errno) or "read"
    reads,    \* per thread, its fromSystemError calls since it last wrote
    raced,    \* per thread, whether another thread wrote since it last wrote
    who,      \* the thread that made the last call
    sysCode,  \* per thread, <<c>> if its last write was setSystemError(c)
    mMessage, \* Error::mMessage, the memoized text of the Error object
    descLen,  \* the length of the description gpgme_strerror_r has for mErr
    msgOp,    \* the last rendering call: "asString" or "asStdString"
    shown,    \* the text that call returned
    firstShown, \* the text the first rendering call on this object returned
    calls,    \* the rendering calls made on this object
    retRef,   \* whether the last set / reset call returned the object itself
    retTmp,   \* the value of the temporary it returned otherwise
    chainLen, \* the calls made so far in the current chained expression
    apart,    \* the set the same calls give when made one statement each
    last      \* per flag, whether the last call that touched it was set(f)

errVars == <<mErr, errOp, inCode, inSrc>>
callVars == <<retRef, retTmp, chainLen, apart, last>>
flagVars == <<Nb, mFlags, op, arg, pre, lst, closed, callVars>>
splitVars == <<nullText, text, delimiter, scan, views, splitPc>>
\* What the Error object's and the Flags object's operations never touch.
sysVars == <<errno, lastSet, lastOp, reads, raced, who, sysCode>>
msgVars == <<mMessage, descLen, msgOp, shown, firstShown, calls>>
restVars == <<splitVars, sysVars, msgVars>>
vars ==
    <<mErr, errOp, inCode, inSrc, Nb, mFlags, op, arg, pre, lst, closed,
      nullText, text, delimiter, scan, views, splitPc,
      errno, lastSet, lastOp, reads, raced, who, sysCode,
      mMessage, descLen, msgOp, shown, firstShown, calls,
      retRef, retTmp, chainLen, apart, last>>

\* The threads of the process.
Threads == {1, 2}

----------------------------------------------------------------------------
(* Bounds of the model.                                                    *)

\* The width in bits of the enum's underlying type (std::underlying_type_t).
UBits == 4
\* The longest initializer list handed to the list constructor.
MaxList == 3
\* How far around each reserved error code the sampled codes reach.
CodeSpan == 1
\* How far from each end of the source field the sampled sources reach.
SrcSpan == 1

----------------------------------------------------------------------------
(* The integer operators of C++ on unsigned values.                        *)

RECURSIVE Pow2(_)
Pow2(n) == IF n = 0 THEN 1 ELSE 2 * Pow2(n - 1)

RECURSIVE BitAnd(_, _)
BitAnd(x, y) ==
    IF x = 0 \/ y = 0 THEN 0
    ELSE (x % 2) * (y % 2) + 2 * BitAnd(x \div 2, y \div 2)

RECURSIVE BitOr(_, _)
BitOr(x, y) ==
    IF x = 0 THEN y
    ELSE IF y = 0 THEN x
    ELSE (IF x % 2 = 1 \/ y % 2 = 1 THEN 1 ELSE 0)
         + 2 * BitOr(x \div 2, y \div 2)

RECURSIVE BitXor(_, _)
BitXor(x, y) ==
    IF x = 0 THEN y
    ELSE IF y = 0 THEN x
    ELSE (IF x % 2 = y % 2 THEN 0 ELSE 1)
         + 2 * BitXor(x \div 2, y \div 2)

\* Bit i of x (0 or 1).
Bit(x, i) == (x \div Pow2(i)) % 2

----------------------------------------------------------------------------
(* GpgME::Error, src/src/error.cpp.                                        *)
(* The gpgme_err_* calls are the inline functions of the error library's   *)
(* header, which error.cpp reaches through <gpgme.h>; each is modelled by  *)
(* what that header computes, and mapped to the line of error.cpp that     *)
(* calls it.                                                               *)

\* GPG_ERR_CODE_MASK: the code field is the low 16 bits.
GPG_ERR_CODE_MASK == 65535
\* GPG_ERR_SOURCE_MASK: the source field is 7 bits wide.
GPG_ERR_SOURCE_MASK == 127
\* GPG_ERR_SOURCE_SHIFT: the source field starts at bit 24.
GPG_ERR_SOURCE_SHIFT == 24
GPG_ERR_NO_ERROR == 0
GPG_ERR_CANCELED == 99
GPG_ERR_FULLY_CANCELED == 198
GPG_ERR_MISSING_ERRNO == 16381

\* An encoded error is a 32-bit unsigned int.  It is held as its two 16-bit
\* halves <<high, low>>, since the model's integers end at 2^31 - 1.
HalfBits == 16
U32(high, low) == <<high, low>>
High(v) == v[1]
Low(v) == v[2]

\* gpgme_err_code(err): err & GPG_ERR_CODE_MASK (the mask lies in the low half).
gpgme_err_code(err) == BitAnd(Low(err), GPG_ERR_CODE_MASK)

\* gpgme_err_source(err): (err >> GPG_ERR_SOURCE_SHIFT) & GPG_ERR_SOURCE_MASK
\* (the shift drops the low half and the low bits of the high half).
gpgme_err_source(err) ==
    BitAnd(High(err) \div Pow2(GPG_ERR_SOURCE_SHIFT - HalfBits),
           GPG_ERR_SOURCE_MASK)

\* gpgme_err_make(source, code): the "no error" code gives the value 0
\* whatever the source; any other code is packed under the masked source:
\* ((source & GPG_ERR_SOURCE_MASK) << GPG_ERR_SOURCE_SHIFT)
\*   | (code & GPG_ERR_CODE_MASK).
gpgme_err_make(source, c) ==
    IF c = GPG_ERR_NO_ERROR THEN U32(0, GPG_ERR_NO_ERROR)
    ELSE U32(BitAnd(source, GPG_ERR_SOURCE_MASK)
                 * Pow2(GPG_ERR_SOURCE_SHIFT - HalfBits),
             BitAnd(c, GPG_ERR_CODE_MASK))

\* Error::code().
code(e) == gpgme_err_code(e)

\* Error::sourceID().
sourceID(e) == gpgme_err_source(e)

\* Error::isSuccess().
isSuccess(e) == code(e) = GPG_ERR_NO_ERROR

isCanceled_Unmasked(e) ==
    e = U32(0, GPG_ERR_CANCELED) \/ e = U32(0, GPG_ERR_FULLY_CANCELED)

\* Error::isCanceled().
isCanceled(e) == code(e) = GPG_ERR_CANCELED \/ code(e) = GPG_ERR_FULLY_CANCELED

isError_CancelForgotten(e) == ~isSuccess(e)

\* Error::isError().
isError(e) == ~isSuccess(e) /\ ~isCanceled(e)

(* The inputs the error actions draw from. *)

\* Codes around each reserved code and at both ends of the code field.
Pivots ==
    {GPG_ERR_NO_ERROR, GPG_ERR_CANCELED, GPG_ERR_FULLY_CANCELED,
     GPG_ERR_MISSING_ERRNO, GPG_ERR_CODE_MASK}
Codes ==
    {c \in UNION {(p - CodeSpan)..(p + CodeSpan) : p \in Pivots} :
        c >= 0 /\ c <= GPG_ERR_CODE_MASK}
\* Sources at both ends of the source field.
Sources ==
    {s \in (0..SrcSpan) \cup ((GPG_ERR_SOURCE_MASK - SrcSpan)..GPG_ERR_SOURCE_MASK) :
        s >= 0 /\ s <= GPG_ERR_SOURCE_MASK}
\* Arguments of fromCode: unsigned ints, some wider than their field.
CodeArgs == Codes \cup {c + GPG_ERR_CODE_MASK + 1 : c \in Codes}
SourceArgs == Sources \cup {s + GPG_ERR_SOURCE_MASK + 1 : s \in Sources}
\* Encoded integers: a code, the bits 16..23 no field owns, and bits 24..31
\* (the source field and the bit above it).
RawErrors ==
    {U32(r + s * Pow2(GPG_ERR_SOURCE_SHIFT - HalfBits), c) :
        c \in Codes, r \in {0, 255}, s \in SourceArgs}

\* Error::Error(unsigned int e): the object holds the encoded integer as given.
ErrorCtor(e) ==
    /\ mErr' = e
    /\ errOp' = "ctor"
    /\ inCode' = 0
    /\ inSrc' = 0
    /\ UNCHANGED <<flagVars, restVars>>

fromCode_ArgsSwapped(err, src) ==
    /\ mErr' = gpgme_err_make(err, src)
    /\ errOp' = "fromCode"
    /\ inCode' = err
    /\ inSrc' = src
    /\ UNCHANGED <<flagVars, restVars>>

\* Error::fromCode(err, src).
fromCode(err, src) ==
    /\ mErr' = gpgme_err_make(src, err)
    /\ errOp' = "fromCode"
    /\ inCode' = err
    /\ inSrc' = src
    /\ UNCHANGED <<flagVars, restVars>>

----------------------------------------------------------------------------
(* GpgME::Flags<Enum, _Nb>, src/src/flags.h.                               *)
(* A Flags value is its stored integer mFlags; an Enum value is its        *)
(* underlying integer.  The operators are functions of these integers,     *)
(* the member functions are actions on the object's mFlags.                *)

\* Every value of UnderlyingT (an unsigned type of UBits bits).
Values == 0..(Pow2(UBits) - 1)

\* The instantiations of _Nb that are modelled: the default, _Nb equal to the
\* width of the underlying type, and the width one below it.
Widths == {n \in (UBits - 1)..UBits : n >= 0}

\* Flags::toUnderlying(flag): static_cast<UnderlyingT>(flag).
toUnderlying(flag) == flag

\* ~x on UnderlyingT.
NotU(x) == Pow2(UBits) - 1 - x

\* (~std::bitset<_Nb>()).to_ulong(): the low _Nb bits set.
BitsetMask(n) == Pow2(n) - 1

\* Flags(Enum flag).
FlagsOf(flag) == toUnderlying(flag)

FlagsOfList_LastWins(flags) ==
    IF Len(flags) = 0 THEN 0 ELSE toUnderlying(flags[Len(flags)])

\* Flags(std::initializer_list<Enum> flags): mFlags starts at 0 and takes
\* mFlags |= toUnderlying(flag) for each flag of the list in order.
RECURSIVE FlagsOfList(_)
FlagsOfList(flags) ==
    IF Len(flags) = 0 THEN 0
    ELSE BitOr(FlagsOfList(SubSeq(flags, 1, Len(flags) - 1)),
               toUnderlying(flags[Len(flags)]))

\* Flags::operator bool().
operator_bool(m) == m # 0

\* operator|(Flags, Flags), operator|(Flags, Enum), operator|(Enum, Flags).
operator_or(lhs, rhs) == BitOr(lhs, rhs)
operator_or_FE(lhs, rhs) == BitOr(lhs, toUnderlying(rhs))
operator_or_EF(lhs, rhs) == BitOr(toUnderlying(lhs), rhs)

\* operator&(Flags, Flags), operator&(Flags, Enum), operator&(Enum, Flags).
operator_and(lhs, rhs) == BitAnd(lhs, rhs)
operator_and_FE(lhs, rhs) == BitAnd(lhs, toUnderlying(rhs))
operator_and_EF(lhs, rhs) == BitAnd(toUnderlying(lhs), rhs)

operator_xor_AsOr(lhs, rhs) == BitOr(lhs, rhs)

\* operator^(Flags, Flags), operator^(Flags, Enum), operator^(Enum, Flags).
operator_xor(lhs, rhs) == BitXor(lhs, rhs)
operator_xor_FE(lhs, rhs) == BitXor(lhs, toUnderlying(rhs))
operator_xor_EF(lhs, rhs) == BitXor(toUnderlying(lhs), rhs)

operator_not_Unmasked(m) == NotU(m)

operator_not_MaskedFirst(m) == NotU(BitAnd(m, BitsetMask(Nb)))

\* Flags::operator~(): ~mFlags & (~std::bitset<_Nb>()).to_ulong().
operator_not(m) == BitAnd(NotU(m), BitsetMask(Nb))

\* The value of mFlags after operator|=, operator&=, operator^= (the Flags
\* forms and the Enum forms).
or_assign(m, other) == BitOr(m, other)
or_assign_E(m, flag) == BitOr(m, toUnderlying(flag))
and_assign(m, other) == BitAnd(m, other)
and_assign_E(m, flag) == BitAnd(m, toUnderlying(flag))
xor_assign(m, other) == BitXor(m, other)
xor_assign_E_AsOr(m, flag) == BitOr(m, toUnderlying(flag))
xor_assign_E(m, flag) == BitXor(m, toUnderlying(flag))

\* GPGMEPP_DEFINE_ENUM_FLAG_OPERATORS: FlagsType{lhs} | rhs, FlagsType{lhs} & rhs,
\* FlagsType{lhs} ^ rhs (the braces pick the list constructor).
macro_or(lhs, rhs) == operator_or_FE(FlagsOfList(<<lhs>>), rhs)
macro_and(lhs, rhs) == operator_and_FE(FlagsOfList(<<lhs>>), rhs)
macro_xor(lhs, rhs) == operator_xor_FE(FlagsOfList(<<lhs>>), rhs)

test_AnyBit(m, flag) == BitAnd(m, toUnderlying(flag)) # 0

\* Flags::test(flag) on the Flags value m.
test(m, flag) == BitAnd(m, toUnderlying(flag)) = toUnderlying(flag)

(* The inputs the Flags actions draw from. *)

\* Enum operands: the zero value, every single-bit flag of the underlying
\* type (those at position _Nb or above included) and multi-bit masks.
EnumValues ==
    {0} \cup {Pow2(i) : i \in 0..(UBits - 1)}
        \cup {3, Pow2(UBits) - 1, Pow2(UBits - 1) + 1}

\* The single-bit flags of the underlying type.
FlagBits == {Pow2(i) : i \in 0..(UBits - 1)}

\* Flags operands: the same and their complements.
FlagsValues == EnumValues \cup {NotU(e) : e \in {1, 2, 3}}

\* Initializer lists of at most MaxList enum values.
Lists == UNION {[1..n -> EnumValues] : n \in 0..MaxList}

\* Whether v has no bit at position _Nb or above.
InDomain(v) == v < Pow2(Nb)

\* A constructor or factory: a new object replaces the old one.
Make(name, operand, list, result) ==
    /\ mFlags' = result
    /\ op' = name
    /\ arg' = operand
    /\ pre' = 0
    /\ lst' = list
    /\ closed' = InDomain(result)
    /\ UNCHANGED <<Nb, callVars, errVars, restVars>>

\* A member function or an assignment of an operator's result to the object.
Step(name, operand, result) ==
    /\ mFlags' = result
    /\ op' = name
    /\ arg' = operand
    /\ pre' = mFlags
    /\ lst' = <<>>
    /\ closed' = (closed /\ InDomain(operand))
    /\ UNCHANGED <<Nb, callVars, errVars, restVars>>

\* Flags().
Flags_default == Make("Flags()", 0, <<>>, 0)

\* Flags(Enum flag).
Flags_flag(flag) == Make("Flags(e)", flag, <<>>, FlagsOf(flag))

\* Flags(UnderlyingT flags), the private constructor: mFlags(flags).
Flags_raw(flags) == flags

fromUnderlyingType_Masked(flags) ==
    Make("from", flags, <<>>, BitAnd(flags, BitsetMask(Nb)))

\* Flags::fromUnderlyingType(flags): return Flags{flags}.
fromUnderlyingType(flags) == Make("from", flags, <<>>, Flags_raw(flags))

\* Flags::toUnderlyingType().
toUnderlyingType(m) == m

\* Flags::set(flag, value).
set(flag, value) ==
    Step(IF value THEN "set" ELSE "set0", flag,
         IF value THEN or_assign_E(mFlags, flag)
         ELSE and_assign(mFlags, operator_not(FlagsOf(flag))))

reset_ByToggle(flag) == Step("reset", flag, xor_assign_E(mFlags, flag))

\* Flags::reset(flag).
reset(flag) ==
    Step("reset", flag, and_assign(mFlags, operator_not(FlagsOf(flag))))

reset_all_MaskOnly == Step("reset()", 0, BitAnd(mFlags, NotU(BitsetMask(Nb))))

\* Flags::reset().
reset_all == Step("reset()", 0, 0)

\* flags |= other, flags |= flag, and so on.
OrAssign(other) == Step("|=", other, or_assign(mFlags, other))
OrAssignE(flag) == Step("|=", flag, or_assign_E(mFlags, flag))
AndAssign(other) == Step("&=", other, and_assign(mFlags, other))
AndAssignE(flag) == Step("&=", flag, and_assign_E(mFlags, flag))
XorAssign(other) == Step("^=", other, xor_assign(mFlags, other))
XorAssignE(flag) == Step("^=", flag, xor_assign_E(mFlags, flag))

\* flags = flags | other, flags = flags | flag, flags = flag | flags, and so on.
Or(other) == Step("|", other, operator_or(mFlags, other))
OrFE(flag) == Step("|", flag, operator_or_FE(mFlags, flag))
OrEF(flag) == Step("|", flag, operator_or_EF(flag, mFlags))
And(other) == Step("&", other, operator_and(mFlags, other))
AndFE(flag) == Step("&", flag, operator_and_FE(mFlags, flag))
AndEF(flag) == Step("&", flag, operator_and_EF(flag, mFlags))
Xor(other) == Step("^", other, operator_xor(mFlags, other))
XorFE(flag) == Step("^", flag, operator_xor_FE(mFlags, flag))
XorEF(flag) == Step("^", flag, operator_xor_EF(flag, mFlags))

\* flags = ~flags.
Not == Step("~", 0, operator_not(mFlags))

----------------------------------------------------------------------------
(* The specifications.                                                     *)

ErrNext ==
    \/ \E e \in RawErrors : ErrorCtor(e)
    \/ \E c \in CodeArgs, s \in SourceArgs : fromCode(c, s)

FlagsNext ==
    \/ Flags_default
    \/ \E e \in EnumValues : Flags_flag(e)
    \/ \E v \in Values : fromUnderlyingType(v)
    \/ \E e \in EnumValues, b \in BOOLEAN : set(e, b)
    \/ \E e \in EnumValues : reset(e)
    \/ reset_all
    \/ \E v \in FlagsValues : OrAssign(v)
    \/ \E e \in EnumValues : OrAssignE(e)
    \/ \E v \in FlagsValues : AndAssign(v)
    \/ \E e \in EnumValues : AndAssignE(e)
    \/ \E v \in FlagsValues : XorAssign(v)
    \/ \E e \in EnumValues : XorAssignE(e)
    \/ \E v \in FlagsValues : Or(v)
    \/ \E e \in EnumValues : OrFE(e)
    \/ \E e \in EnumValues : OrEF(e)
    \/ \E v \in FlagsValues : And(v)
    \/ \E e \in EnumValues : AndFE(e)
    \/ \E e \in EnumValues : AndEF(e)
    \/ \E v \in FlagsValues : Xor(v)
    \/ \E e \in EnumValues : XorFE(e)
    \/ \E e \in EnumValues : XorEF(e)
    \/ Not

\* What the test of the list constructor applies to the object it built.
ListNext ==
    \/ Flags_default
    \/ \E e \in EnumValues : Flags_flag(e)
    \/ \E e \in EnumValues : reset(e)
    \/ reset_all

\* Error() and Flags(): the encoded integer 0 and the empty set, for every
\* modelled instantiation of _Nb.
Init ==
    /\ mErr = U32(0, 0)
    /\ errOp = "ctor"
    /\ inCode = 0
    /\ inSrc = 0
    /\ Nb \in Widths
    /\ mFlags = 0
    /\ op = "Flags()"
    /\ arg = 0
    /\ pre = 0
    /\ lst = <<>>
    /\ closed = TRUE
    /\ nullText = TRUE
    /\ text = <<>>
    /\ delimiter = 0
    /\ scan = 0
    /\ views = <<>>
    /\ splitPc = "returned"
    /\ errno = [t \in Threads |-> 0]
    /\ lastSet = [t \in Threads |-> 0]
    /\ lastOp = [t \in Threads |-> "start"]
    /\ reads = [t \in Threads |-> 0]
    /\ raced = [t \in Threads |-> FALSE]
    /\ who = 1
    /\ sysCode = [t \in Threads |-> <<>>]
    /\ mMessage = <<0, 0>>
    /\ descLen = 0
    /\ msgOp = "ctor"
    /\ shown = <<0, 0>>
    /\ firstShown = <<0, 0>>
    /\ calls = 0
    /\ retRef = TRUE
    /\ retTmp = 0
    /\ chainLen = 0
    /\ apart = 0
    /\ last = [f \in FlagBits |-> FALSE]

\* Error() and a Flags object built from an initializer list:
\* Flags(std::initializer_list<Enum> flags).
ListInit ==
    /\ mErr = U32(0, 0)
    /\ errOp = "ctor"
    /\ inCode = 0
    /\ inSrc = 0
    /\ Nb \in Widths
    /\ lst \in Lists
    /\ mFlags = FlagsOfList(lst)
    /\ op = "Flags{}"
    /\ arg = 0
    /\ pre = 0
    /\ closed = InDomain(mFlags)
    /\ nullText = TRUE
    /\ text = <<>>
    /\ delimiter = 0
    /\ scan = 0
    /\ views = <<>>
    /\ splitPc = "returned"
    /\ errno = [t \in Threads |-> 0]
    /\ lastSet = [t \in Threads |-> 0]
    /\ lastOp = [t \in Threads |-> "start"]
    /\ reads = [t \in Threads |-> 0]
    /\ raced = [t \in Threads |-> FALSE]
    /\ who = 1
    /\ sysCode = [t \in Threads |-> <<>>]
    /\ mMessage = <<0, 0>>
    /\ descLen = 0
    /\ msgOp = "ctor"
    /\ shown = <<0, 0>>
    /\ firstShown = <<0, 0>>
    /\ calls = 0
    /\ retRef = TRUE
    /\ retTmp = 0
    /\ chainLen = 0
    /\ apart = 0
    /\ last = [f \in FlagBits |-> FALSE]

\* The Error object alone; the Flags object stays as constructed.
SpecError == Init /\ [][ErrNext]_vars

\* The Flags object alone; the Error object stays as constructed.
SpecFlags == Init /\ [][FlagsNext]_vars

\* A Flags object constructed from a list, then reset or replaced.
SpecList == ListInit /\ [][ListNext]_vars

Next == ErrNext \/ FlagsNext
Spec == Init /\ [][Next]_vars

----------------------------------------------------------------------------
(* The claims about GpgME::Error (checked under SpecError).                *)

\* How many of the three classification predicates hold of e.
Classes(e) ==
    (IF isSuccess(e) THEN 1 ELSE 0) + (IF isCanceled(e) THEN 1 ELSE 0)
        + (IF isError(e) THEN 1 ELSE 0)

\* C1: for every encoded error integer, exactly one of isSuccess, isCanceled
\* and isError holds: no two hold together and at least one holds.
C1_ExactlyOneClass ==
    /\ Classes(mErr) = 1
    /\ ~(isSuccess(mErr) /\ isCanceled(mErr))
    /\ ~(isSuccess(mErr) /\ isError(mErr))
    /\ ~(isCanceled(mErr) /\ isError(mErr))
    /\ isSuccess(mErr) \/ isCanceled(mErr) \/ isError(mErr)

\* A raw encoded integer with source bits set whose code is a cancel code.
C1_Witness ==
    /\ errOp = "ctor"
    /\ High(mErr) # 0
    /\ isCanceled(mErr)
    /\ ~isSuccess(mErr) /\ ~isError(mErr)

\* Whether the pair is one fromCode can represent: each fits its field.
Representable(c, s) ==
    /\ c >= 0 /\ c <= GPG_ERR_CODE_MASK
    /\ s >= 0 /\ s <= GPG_ERR_SOURCE_MASK

\* C2 as stated: for every representable (code, source), the code 0 included,
\* fromCode(code, source) has code() = code and sourceID() = source.
C2_RoundTripEveryCode ==
    (errOp = "fromCode" /\ Representable(inCode, inSrc))
        => (code(mErr) = inCode /\ sourceID(mErr) = inSrc)

\* C2 amended: the round trip holds for every representable pair whose code
\* is not the "no error" code; for the code 0 the result is the encoded
\* integer 0, so code() = 0 and sourceID() = 0 whatever the source was.
C2_RoundTripNonZeroCode ==
    (errOp = "fromCode" /\ Representable(inCode, inSrc))
        => IF inCode # GPG_ERR_NO_ERROR
           THEN code(mErr) = inCode /\ sourceID(mErr) = inSrc
           ELSE mErr = U32(0, 0) /\ code(mErr) = 0 /\ sourceID(mErr) = 0

\* fromCode packed the largest source over a cancel code.
C2_Witness ==
    /\ errOp = "fromCode"
    /\ inCode = GPG_ERR_FULLY_CANCELED
    /\ inSrc = GPG_ERR_SOURCE_MASK
    /\ code(mErr) = inCode
    /\ sourceID(mErr) = inSrc

\* The code field of v read off its halves: the low 16 bits.
CodeField(v) == Low(v)
\* v with the eight bits 24..31 replaced by s.
WithSourceBits(v, s) ==
    U32((High(v) % Pow2(GPG_ERR_SOURCE_SHIFT - HalfBits))
            + s * Pow2(GPG_ERR_SOURCE_SHIFT - HalfBits),
        Low(v))

\* C3: isCanceled holds exactly when the code field is the cancel code or the
\* fully-canceled code, whatever the source bits; values with the same code
\* field and different source bits get the same classification.
C3_CanceledIgnoresSource ==
    /\ isCanceled(mErr)
        <=> CodeField(mErr) \in {GPG_ERR_CANCELED, GPG_ERR_FULLY_CANCELED}
    /\ \A s \in SourceArgs \cup {0} :
        LET w == WithSourceBits(mErr, s) IN
        /\ isSuccess(w) = isSuccess(mErr)
        /\ isCanceled(w) = isCanceled(mErr)
        /\ isError(w) = isError(mErr)

\* A fully-canceled code under the largest source.
C3_Witness ==
    /\ sourceID(mErr) = GPG_ERR_SOURCE_MASK
    /\ code(mErr) = GPG_ERR_FULLY_CANCELED
    /\ isCanceled(mErr)
    /\ isCanceled(WithSourceBits(mErr, 0))

----------------------------------------------------------------------------
(* The claims about GpgME::Flags (checked under SpecFlags and SpecList).   *)

\* C4: for all Flags values a and b, a | b == b | a, a & b == b & a, and
\* a ^ a is the empty set; the object after flags = flags | b (or & b) holds
\* b | flags (or b & flags), and after flags = flags ^ flags it is empty.
C4_CommutativeAndSelfXor ==
    /\ \A b \in Values :
        /\ operator_or(mFlags, b) = operator_or(b, mFlags)
        /\ operator_and(mFlags, b) = operator_and(b, mFlags)
    /\ operator_xor(mFlags, mFlags) = 0
    /\ ~operator_bool(operator_xor(mFlags, mFlags))
    /\ op = "|" => mFlags = operator_or(arg, pre)
    /\ op = "&" => mFlags = operator_and(arg, pre)
    /\ (op = "^" /\ arg = pre) => mFlags = 0

\* flags = flags | b was applied to two non-empty sets with no common bit.
C4_Witness ==
    /\ op = "|"
    /\ pre # 0 /\ arg # 0
    /\ operator_and(pre, arg) = 0
    /\ mFlags = operator_or(arg, pre)
    /\ mFlags # pre /\ mFlags # arg

\* C5 as stated: for every Flags value a, whatever integer it stores,
\* ~~a == a.
C5_DoubleComplementIsIdentity ==
    /\ operator_not(operator_not(mFlags)) = mFlags
    /\ op = "~" => operator_not(mFlags) = pre

\* C5 amended: ~~a is a with every bit at position _Nb or above cleared; so
\* ~~a == a exactly for the Flags values whose stored integer is below 2^_Nb.
C5_DoubleComplementClearsHighBits ==
    /\ operator_not(operator_not(mFlags)) = mFlags % Pow2(Nb)
    /\ InDomain(mFlags) <=> operator_not(operator_not(mFlags)) = mFlags
    /\ op = "~" => operator_not(mFlags) = pre % Pow2(Nb)

\* flags = ~flags was applied to a non-empty set below 2^_Nb, and the
\* complement of the result is the set it was applied to.
C5_Witness ==
    /\ op = "~"
    /\ pre # 0 /\ InDomain(pre)
    /\ mFlags # 0
    /\ operator_not(mFlags) = pre

\* C6 as stated: for every enum value e, the zero value included, test(e) is
\* true right after set(e) and false right after reset(e).
C6_TestAfterSetAndReset ==
    /\ op = "set" => test(mFlags, arg)
    /\ op = "reset" => ~test(mFlags, arg)

\* C6 amended: test(e) is true right after set(e) for every e; test(e) is
\* false right after reset(e) for every e whose underlying value is not 0;
\* for the zero value test(e) is true of every Flags value, after reset(e) too.
C6_TestAfterSetAndResetNonZero ==
    /\ op = "set" => test(mFlags, arg)
    /\ (op = "reset" /\ arg # 0) => ~test(mFlags, arg)
    /\ test(mFlags, 0)

\* reset(e) was applied with a multi-bit e to a set that held all of e's bits.
C6_Witness ==
    /\ op = "reset"
    /\ arg = 3
    /\ test(pre, arg)
    /\ ~test(mFlags, arg)

\* C7: the complement of any Flags value has no bit at position _Nb or above,
\* and below _Nb its bit i is set iff bit i of the value is clear.
C7_ComplementStaysBelowNb ==
    /\ LET c == operator_not(mFlags) IN
        /\ toUnderlyingType(c) < Pow2(Nb)
        /\ \A i \in 0..(Nb - 1) : Bit(c, i) = 1 <=> Bit(mFlags, i) = 0
    /\ op = "~" =>
        /\ toUnderlyingType(mFlags) < Pow2(Nb)
        /\ \A i \in 0..(Nb - 1) : Bit(mFlags, i) = 1 <=> Bit(pre, i) = 0

\* flags = ~flags was applied to a value with a bit at position _Nb or above.
C7_Witness ==
    /\ op = "~"
    /\ Nb < UBits
    /\ ~InDomain(pre)
    /\ InDomain(mFlags)
    /\ mFlags # 0

\* C8: while the object started below 2^_Nb and every operand of set, reset,
\* |, &, ^, |=, &=, ^= and ~ was below 2^_Nb, the stored integer is below
\* 2^_Nb.
C8_DomainIsClosed == closed => InDomain(mFlags)

\* Within the domain, a complement was taken in an instantiation whose _Nb is
\* below the width of the underlying type, and it is not empty.
C8_Witness ==
    /\ closed
    /\ Nb < UBits
    /\ op = "~"
    /\ pre # 0
    /\ mFlags # 0

\* The permutations of 1..n.
Perms(n) ==
    {f \in [1..n -> 1..n] : \A i, j \in 1..n : i # j => f[i] # f[j]}

\* C9: a Flags value built from a list holds the bitwise union of the listed
\* values; every permutation of the list and every repetition of an element
\* gives the same value; the empty list and the default constructor give 0;
\* a one-element list gives the same as construction from that flag.
C9_ListIsUnion ==
    /\ op = "Flags{}" =>
        /\ \A i \in 0..(UBits - 1) :
            Bit(mFlags, i) = 1 <=> \E k \in 1..Len(lst) : Bit(lst[k], i) = 1
        /\ \A p \in Perms(Len(lst)) :
            FlagsOfList([k \in 1..Len(lst) |-> lst[p[k]]]) = mFlags
        /\ \A k \in 1..Len(lst) :
            /\ FlagsOfList(Append(lst, lst[k])) = mFlags
            /\ FlagsOfList(<<lst[k]>> \o lst) = mFlags
        /\ Len(lst) = 0 => mFlags = 0
        /\ Len(lst) = 1 => mFlags = FlagsOf(lst[1])
    /\ op = "Flags()" => mFlags = 0

\* The set built from the list {B, C, B}.
C9_Witness ==
    /\ op = "Flags{}"
    /\ lst = <<2, 4, 2>>
    /\ mFlags = 6

\* C10: reset() leaves the empty set, whose boolean conversion is false and
\* in which no flag tests true; the boolean conversion of a Flags value is
\* true iff some bit of its stored integer is set.
C10_ResetAllGivesEmptySet ==
    /\ op = "reset()" =>
        /\ mFlags = 0
        /\ ~operator_bool(mFlags)
        /\ \A f \in {1, 2, 4} : ~test(mFlags, f)
    /\ operator_bool(mFlags) <=> \E i \in 0..(UBits - 1) : Bit(mFlags, i) = 1

\* reset() was applied to {A, C}, what reset(B) leaves of {A, B, C}.
C10_Witness ==
    /\ op = "reset()"
    /\ pre = 5
    /\ mFlags = 0
    /\ ~operator_bool(mFlags)

\* C11: test(e) is true iff every bit set in e's underlying value is set in
\* the stored integer; for a multi-bit e it is false when only some of e's
\* bits are set.
C11_TestIsSubset ==
    \A e \in Values :
        /\ test(mFlags, e)
            <=> \A i \in 0..(UBits - 1) : Bit(e, i) = 1 => Bit(mFlags, i) = 1
        /\ (/\ \E i \in 0..(UBits - 1) : Bit(e, i) = 1 /\ Bit(mFlags, i) = 1
            /\ \E i \in 0..(UBits - 1) : Bit(e, i) = 1 /\ Bit(mFlags, i) = 0)
            => ~test(mFlags, e)

\* After set(A) on the empty set the two-bit mask A|B tests false, A true.
C11_Witness ==
    /\ op = "set"
    /\ arg = 1
    /\ mFlags = 1
    /\ test(mFlags, 1)
    /\ ~test(mFlags, 3)

\* Whether the forms of one operator agree, given its set-with-set,
\* set-with-enum, enum-with-set, in-place set, in-place enum and macro forms.
FormsAgree(ff(_, _), fe(_, _), ef(_, _), af(_, _), ae(_, _), mac(_, _)) ==
    \A e \in EnumValues :
        /\ fe(mFlags, e) = ff(mFlags, FlagsOf(e))
        /\ ef(e, mFlags) = ff(FlagsOf(e), mFlags)
        /\ ef(e, mFlags) = ff(mFlags, FlagsOf(e))
        /\ ae(mFlags, e) = ff(mFlags, FlagsOf(e))
        /\ af(mFlags, FlagsOf(e)) = ff(mFlags, FlagsOf(e))
        /\ \A f \in EnumValues : mac(e, f) = ff(FlagsOf(e), FlagsOf(f))

\* C12: for each of |, & and ^, the forms a op e, e op a, a op= e,
\* a op= Flags(e) and the macro-generated e op f give the result of the
\* set-with-set form applied to Flags(e) (and Flags(f)); the object after
\* any of these forms holds that result.
C12_OperatorFormsAgree ==
    /\ FormsAgree(operator_or, operator_or_FE, operator_or_EF,
                  or_assign, or_assign_E, macro_or)
    /\ FormsAgree(operator_and, operator_and_FE, operator_and_EF,
                  and_assign, and_assign_E, macro_and)
    /\ FormsAgree(operator_xor, operator_xor_FE, operator_xor_EF,
                  xor_assign, xor_assign_E, macro_xor)
    /\ op \in {"|", "|="} => mFlags = operator_or(pre, FlagsOf(arg))
    /\ op \in {"&", "&="} => mFlags = operator_and(pre, FlagsOf(arg))
    /\ op \in {"^", "^="} => mFlags = operator_xor(pre, FlagsOf(arg))

\* flags ^= e with the two-bit mask A|B on the set {A} left {B}.
C12_Witness ==
    /\ op = "^="
    /\ arg = 3
    /\ pre = 1
    /\ mFlags = 2

\* C13: fromUnderlyingType(v).toUnderlyingType() == v for every value v of
\* the underlying type, with no masking to _Nb bits, and
\* fromUnderlyingType(a.toUnderlyingType()) == a for every Flags value a.
C13_RawConversionLossless ==
    /\ op = "from" => toUnderlyingType(mFlags) = arg
    /\ Flags_raw(toUnderlyingType(mFlags)) = mFlags

\* fromUnderlyingType was given a value with a bit at position _Nb or above.
C13_Witness ==
    /\ op = "from"
    /\ Nb < UBits
    /\ ~InDomain(arg)
    /\ toUnderlyingType(mFlags) = arg

----------------------------------------------------------------------------
(* _gpgmepp::split_into_string_views(const char *s, char delimiter)        *)
(* (src/src/util.cpp).  The text is a C string: its characters, then the   *)
(* terminating NUL at index Len(text).  What lies behind the NUL is not    *)
(* part of the text.                                                       *)

\* The longest text handed to the function.
MaxText == 4
\* How many bytes behind the terminating NUL can be read before the read
\* leaves mapped memory.
MaxBeyond == 2

\* The characters of the texts; 0 is the NUL character.
Chars == {1, 2}
\* The delimiters: NUL, the characters of the texts, and one no text holds.
Delimiters == {0} \cup Chars \cup {3}
Texts == UNION {[1..n -> Chars] : n \in 0..MaxText}

\* The null pointer strchr returns when it finds nothing.
NULL == -1

\* The byte at index i of a text t, for i up to the terminating NUL.
At(t, i) == IF i < Len(t) THEN t[i + 1] ELSE 0

\* std::strchr(s, c) for s inside the text: the first index at or after
\* from that holds c, the terminating NUL being part of the string.
strchr(t, from, c) ==
    LET hits == {i \in from..Len(t) : At(t, i) = c}
    IN  IF hits = {} THEN NULL ELSE CHOOSE i \in hits : \A j \in hits : i <= j

\* std::strlen(s) for s inside the text.
strlen(t, from) == Len(t) - from

\* result.emplace_back(s, segment_size) under if (segment_size).
emplace_if(size) == IF size # 0 THEN Append(views, <<scan, size>>) ELSE views

\* The function's entry: a null text returns the empty result at once.
split_entry ==
    /\ splitPc = "entry"
    /\ splitPc' = IF nullText THEN "returned" ELSE "loop"
    /\ UNCHANGED <<nullText, text, delimiter, scan, views, errVars, flagVars, sysVars, msgVars>>

split_segment_KeepEmpty ==
    /\ splitPc = "loop"
    /\ scan <= Len(text)
    /\ strchr(text, scan, delimiter) # NULL
    /\ LET segment_end == strchr(text, scan, delimiter)
       IN  /\ views' = Append(views, <<scan, segment_end - scan>>)
           /\ scan' = segment_end + 1
    /\ UNCHANGED <<nullText, text, delimiter, splitPc, errVars, flagVars, sysVars, msgVars>>

\* One turn of the while loop: strchr found the delimiter at segment_end.
split_segment ==
    /\ splitPc = "loop"
    /\ scan <= Len(text)
    /\ strchr(text, scan, delimiter) # NULL
    /\ LET segment_end == strchr(text, scan, delimiter)
       IN  /\ views' = emplace_if(segment_end - scan)
           /\ scan' = segment_end + 1
    /\ UNCHANGED <<nullText, text, delimiter, splitPc, errVars, flagVars, sysVars, msgVars>>

\* The loop's exit: strchr found no delimiter; the rest of the text is the
\* last segment, and the function returns.
split_tail ==
    /\ splitPc = "loop"
    /\ scan <= Len(text)
    /\ strchr(text, scan, delimiter) = NULL
    /\ views' = emplace_if(strlen(text, scan))
    /\ splitPc' = "returned"
    /\ UNCHANGED <<nullText, text, delimiter, scan, errVars, flagVars, sysVars, msgVars>>

\* A turn of the loop with s behind the terminating NUL (only the NUL
\* delimiter brings s there): strchr reads bytes that are not part of the
\* text, which is undefined.  One outcome: the bytes are readable and the
\* next NUL lies `size` bytes on.
split_beyond(size) ==
    /\ splitPc = "loop"
    /\ scan > Len(text)
    /\ scan + size <= Len(text) + MaxBeyond
    /\ views' = emplace_if(size)
    /\ scan' = scan + size + 1
    /\ UNCHANGED <<nullText, text, delimiter, splitPc, errVars, flagVars, sysVars, msgVars>>

\* The other outcome of that read: it leaves mapped memory and faults.
split_fault ==
    /\ splitPc = "loop"
    /\ scan > Len(text)
    /\ splitPc' = "fault"
    /\ UNCHANGED <<nullText, text, delimiter, scan, views, errVars, flagVars, sysVars, msgVars>>

SplitNext ==
    \/ split_entry
    \/ split_segment
    \/ split_tail
    \/ \E size \in 0..MaxBeyond : split_beyond(size)
    \/ split_fault

\* A call of the function with a null pointer or a text, and a delimiter;
\* Error() and Flags() as in Init.
SplitInit ==
    /\ mErr = U32(0, 0)
    /\ errOp = "ctor"
    /\ inCode = 0
    /\ inSrc = 0
    /\ Nb = UBits
    /\ mFlags = 0
    /\ op = "Flags()"
    /\ arg = 0
    /\ pre = 0
    /\ lst = <<>>
    /\ closed = TRUE
    /\ nullText \in BOOLEAN
    /\ text \in (IF nullText THEN {<<>>} ELSE Texts)
    /\ delimiter \in Delimiters
    /\ scan = 0
    /\ views = <<>>
    /\ splitPc = "entry"
    /\ errno = [t \in Threads |-> 0]
    /\ lastSet = [t \in Threads |-> 0]
    /\ lastOp = [t \in Threads |-> "start"]
    /\ reads = [t \in Threads |-> 0]
    /\ raced = [t \in Threads |-> FALSE]
    /\ who = 1
    /\ sysCode = [t \in Threads |-> <<>>]
    /\ mMessage = <<0, 0>>
    /\ descLen = 0
    /\ msgOp = "ctor"
    /\ shown = <<0, 0>>
    /\ firstShown = <<0, 0>>
    /\ calls = 0
    /\ retRef = TRUE
    /\ retTmp = 0
    /\ chainLen = 0
    /\ apart = 0
    /\ last = [f \in FlagBits |-> FALSE]

\* One call of split_into_string_views, from entry to return.
SpecSplit == SplitInit /\ [][SplitNext]_vars

----------------------------------------------------------------------------
(* The claims about split_into_string_views (checked under SpecSplit).     *)

\* Whether the size characters of t from index start hold no c.
FreeOf(t, start, size, c) == \A i \in start..(start + size - 1) : At(t, i) # c

\* The maximal non-empty runs of t that hold no c, as <<start, size>>: a
\* run begins at the text's start or behind a c, and ends at the text's end
\* or before a c.
Runs(t, c) ==
    {<<start, size>> \in (0..Len(t)) \X (1..Len(t)) :
        /\ start + size <= Len(t)
        /\ FreeOf(t, start, size, c)
        /\ start = 0 \/ At(t, start - 1) = c
        /\ start + size = Len(t) \/ At(t, start + size) = c}

\* C14: for a NUL-terminated text and a non-NUL delimiter the function
\* returns, from left to right, exactly the maximal non-empty runs of the
\* text that hold no delimiter: no view is empty, no view holds the
\* delimiter, every run is returned once, the run behind the last delimiter
\* included iff it is non-empty; a null text returns the empty sequence.
C14_ViewsAreTheMaximalRuns ==
    splitPc = "returned" =>
        /\ nullText => views = <<>>
        /\ (~nullText /\ delimiter # 0) =>
            /\ \A k \in 1..Len(views) :
                /\ views[k][2] > 0
                /\ FreeOf(text, views[k][1], views[k][2], delimiter)
                /\ views[k] \in Runs(text, delimiter)
            /\ \A k \in 1..(Len(views) - 1) : views[k][1] < views[k + 1][1]
            /\ {views[k] : k \in 1..Len(views)} = Runs(text, delimiter)
            /\ Len(views) = Cardinality(Runs(text, delimiter))

\* A returned call on a text with one run between a leading delimiter and
\* a doubled, trailing delimiter.
C14_Witness ==
    /\ splitPc = "returned"
    /\ ~nullText
    /\ delimiter = 1
    /\ text = <<1, 2, 1, 1>>
    /\ views = <<<<1, 1>>>>

\* C15 as stated: for a non-null text and every delimiter, NUL included,
\* the call ends with a finite sequence and its scan position never moves
\* past the index of the text's terminating NUL.
C15_ScanStaysInsideText ==
    ~nullText => scan <= Len(text) /\ splitPc # "fault"

----------------------------------------------------------------------------
(* The errno operations of GpgME::Error (src/src/error.cpp): toErrno,      *)
(* hasSystemError, setSystemError, setErrno, fromSystemError, fromErrno.   *)
(* They call libgpg-error, which reads and writes the C library's errno.   *)
(* errno has thread storage duration (ISO C11 7.5, POSIX): each thread     *)
(* reads and writes an errno of its own.                                   *)

\* How many fromSystemError calls since the last write are told apart.
MaxReads == 2

GPG_ERR_UNKNOWN_ERRNO == 16382
\* GPG_ERR_SYSTEM_ERROR: the bit (1 << 15) that marks a code made from errno.
GPG_ERR_SYSTEM_ERROR == 32768
\* The number of rows of libgpg-error's table err_code_to_errno.
ErrnoTableSize == 141

\* Rows <<index, errno>> of that table on a GNU/Linux build:
\* EAGAIN at 6, EAUTH at 8 (no such errno on this platform: the row holds
\* 0), ENOENT at 81, EWOULDBLOCK at 138 (the same number as EAGAIN).
ErrnoRows == {<<6, 11>>, <<8, 0>>, <<81, 2>>, <<138, 11>>}

\* errno values: none, ENOENT, EAGAIN, and a number no row holds.
ErrnoValues == {0, 2, 11, 9999}
\* Codes: some without the system-error bit, the sampled rows, an index past
\* the table's end, and the top of the code field.
SysCodes ==
    {GPG_ERR_NO_ERROR, GPG_ERR_CANCELED, GPG_ERR_UNKNOWN_ERRNO,
     GPG_ERR_SYSTEM_ERROR + ErrnoTableSize, GPG_ERR_CODE_MASK}
    \cup {GPG_ERR_SYSTEM_ERROR + r[1] : r \in ErrnoRows}
\* Source arguments: one inside the source field, one wider than it.
SysSources == {1, GPG_ERR_SOURCE_MASK + 3}

\* errno_to_idx and err_code_from_index of libgpg-error: the first row that
\* holds the errno value, -1 if none does.
errno_to_idx(err) ==
    LET rows == {r \in ErrnoRows : r[2] = err}
    IN  IF err = 0 \/ rows = {} THEN -1
        ELSE (CHOOSE r \in rows : \A q \in rows : r[1] <= q[1])[1]

gpgme_err_code_from_errno_NoSystemBit(err) ==
    IF err = 0 THEN GPG_ERR_NO_ERROR
    ELSE IF errno_to_idx(err) < 0 THEN GPG_ERR_UNKNOWN_ERRNO
    ELSE errno_to_idx(err)

\* gpgme_err_code_from_errno(err).
gpgme_err_code_from_errno(err) ==
    IF err = 0 THEN GPG_ERR_NO_ERROR
    ELSE IF errno_to_idx(err) < 0 THEN GPG_ERR_UNKNOWN_ERRNO
    ELSE BitOr(GPG_ERR_SYSTEM_ERROR, errno_to_idx(err))

\* gpgme_err_code_from_syserror(), for a calling thread whose errno is err.
gpgme_err_code_from_syserror(err) ==
    IF err = 0 THEN GPG_ERR_MISSING_ERRNO
    ELSE IF errno_to_idx(err) < 0 THEN GPG_ERR_UNKNOWN_ERRNO
    ELSE BitOr(GPG_ERR_SYSTEM_ERROR, errno_to_idx(err))

\* gpgme_err_code_to_errno(code): 0 without the system-error bit; else the
\* row at index code & ~GPG_ERR_SYSTEM_ERROR, 0 past the table's end.
gpgme_err_code_to_errno(c) ==
    IF BitAnd(c, GPG_ERR_SYSTEM_ERROR) = 0 THEN 0
    ELSE LET idx == c - GPG_ERR_SYSTEM_ERROR
         IN  IF idx < ErrnoTableSize
             THEN (CHOOSE r \in ErrnoRows : r[1] = idx)[2]
             ELSE 0

gpgme_err_set_errno_ProcessWide(t, err) == [u \in Threads |-> err]

\* gpgme_err_set_errno(err) called by thread t: errno = err.
gpgme_err_set_errno(t, err) == [errno EXCEPT ![t] = err]

\* Error::toErrno().
toErrno(e) == gpgme_err_code_to_errno(code(e))

hasSystemError_VersusNoError(t) ==
    gpgme_err_code_from_syserror(errno[t]) # GPG_ERR_NO_ERROR

\* Error::hasSystemError(), called by thread t.
hasSystemError(t) ==
    gpgme_err_code_from_syserror(errno[t]) # GPG_ERR_MISSING_ERRNO

\* The body of Error::setErrno(err), called by thread t; via is <<c>> when
\* the call is the one inside setSystemError(c), <<>> otherwise.
setErrno_via(t, err, via) ==
    /\ errno' = gpgme_err_set_errno(t, err)
    /\ sysCode' = [sysCode EXCEPT ![t] = via]
    /\ lastSet' = [lastSet EXCEPT ![t] = err]
    /\ lastOp' = [lastOp EXCEPT ![t] = "set"]
    /\ reads' = [reads EXCEPT ![t] = 0]
    /\ raced' = [u \in Threads |->
                    IF u = t THEN FALSE ELSE raced[u] \/ lastOp[u] # "start"]
    /\ who' = t
    /\ UNCHANGED <<errVars, flagVars, splitVars, msgVars>>

\* Error::setErrno(err), called by thread t.
setErrno(t, err) == setErrno_via(t, err, <<>>)

setSystemError_RawCode(t, err) == setErrno_via(t, err, <<err>>)

\* Error::setSystemError(err), called by thread t:
\* setErrno(gpgme_err_code_to_errno(err)).
setSystemError(t, err) ==
    setErrno_via(t, gpgme_err_code_to_errno(err), <<err>>)

fromSystemError_Consuming(t, src) ==
    /\ mErr' = gpgme_err_make(src, gpgme_err_code_from_syserror(errno[t]))
    /\ errOp' = "fromSystemError"
    /\ inCode' = 0
    /\ inSrc' = src
    /\ errno' = [errno EXCEPT ![t] = 0]
    /\ lastOp' = [lastOp EXCEPT ![t] = "read"]
    /\ reads' = [reads EXCEPT ![t] = IF @ < MaxReads THEN @ + 1 ELSE @]
    /\ who' = t
    /\ UNCHANGED <<lastSet, raced, sysCode, flagVars, splitVars, msgVars>>

\* Error::fromSystemError(src), called by thread t.
fromSystemError(t, src) ==
    /\ mErr' = gpgme_err_make(src, gpgme_err_code_from_syserror(errno[t]))
    /\ errOp' = "fromSystemError"
    /\ inCode' = 0
    /\ inSrc' = src
    /\ lastOp' = [lastOp EXCEPT ![t] = "read"]
    /\ reads' = [reads EXCEPT ![t] = IF @ < MaxReads THEN @ + 1 ELSE @]
    /\ who' = t
    /\ UNCHANGED <<errno, lastSet, raced, sysCode, flagVars, splitVars, msgVars>>

\* Error::fromErrno(err, src), called by thread t.
fromErrno(t, err, src) ==
    /\ mErr' = gpgme_err_make(src, gpgme_err_code_from_errno(err))
    /\ errOp' = "fromErrno"
    /\ inCode' = err
    /\ inSrc' = src
    /\ who' = t
    /\ UNCHANGED <<errno, lastSet, lastOp, reads, raced, sysCode,
                   flagVars, splitVars, msgVars>>

\* Two threads calling the errno operations in any order.
SysNext ==
    \/ \E t \in Threads, n \in ErrnoValues : setErrno(t, n)
    \/ \E t \in Threads, src \in SysSources : fromSystemError(t, src)
    \/ \E t \in Threads, n \in ErrnoValues, src \in SysSources :
           fromErrno(t, n, src)

\* The program of C17: each thread calls setErrno once, then
\* fromSystemError once; the two threads' steps interleave freely.
Thread_setErrno(t, n) == lastOp[t] = "start" /\ setErrno(t, n)
Thread_fromSystemError(t, src) == lastOp[t] = "set" /\ fromSystemError(t, src)

ThreadsNext ==
    \/ \E t \in Threads, n \in ErrnoValues : Thread_setErrno(t, n)
    \/ \E t \in Threads, src \in SysSources : Thread_fromSystemError(t, src)

\* One thread calling setSystemError and fromSystemError in any order.
SysErrorNext ==
    \/ \E c \in SysCodes : setSystemError(who, c)
    \/ \E src \in SysSources : fromSystemError(who, src)

SpecErrno == Init /\ [][SysNext]_vars
SpecSysError == Init /\ [][SysErrorNext]_vars
SpecThreads == Init /\ [][ThreadsNext]_vars

----------------------------------------------------------------------------
(* The claims about the errno operations (checked under SpecErrno, C17     *)
(* under SpecThreads).                                                     *)

\* Whether the Error object is what thread t's fromSystemError just returned.
JustRead(t) == who = t /\ errOp = "fromSystemError" /\ lastOp[t] = "read"

\* C16: after a thread stored n # 0 in errno and nothing wrote to it since,
\* each of its fromSystemError(src) calls, however many, returns what
\* fromErrno(n, src) returns, and errno still holds n afterwards.
C16_ReadsDoNotClearErrno ==
    \A t \in Threads :
        (JustRead(t) /\ lastSet[t] # 0) =>
            /\ mErr = gpgme_err_make(inSrc, gpgme_err_code_from_errno(lastSet[t]))
            /\ errno[t] = lastSet[t]

\* A second read in a row after setErrno(EAGAIN) still returns EAGAIN's code.
C16_Witness ==
    /\ JustRead(1)
    /\ reads[1] = MaxReads
    /\ lastSet[1] = 11
    /\ errno[1] = 11
    /\ code(mErr) = GPG_ERR_SYSTEM_ERROR + 6

\* Whether thread t and the other thread wrote values that fromSystemError
\* tells apart.
OtherOf(t) == CHOOSE u \in Threads : u # t
ValuesDiffer(t) ==
    gpgme_err_code_from_syserror(lastSet[t])
        # gpgme_err_code_from_syserror(lastSet[OtherOf(t)])

C18_HasSystemErrorIffErrnoSet ==
    \A t \in Threads :
        /\ hasSystemError(t) <=> errno[t] # 0
        /\ lastOp[t] = "set" => (hasSystemError(t) <=> lastSet[t] # 0)
        /\ JustRead(t) => (hasSystemError(t) <=> code(mErr) # GPG_ERR_MISSING_ERRNO)
        /\ \A src \in SysSources :
            hasSystemError(t) <=>
                code(gpgme_err_make(src, gpgme_err_code_from_syserror(errno[t])))
                    # GPG_ERR_MISSING_ERRNO

\* After setErrno(0) a read returned the "missing errno" code, and
\* hasSystemError() is false.
C18_Witness ==
    /\ JustRead(2)
    /\ lastSet[2] = 0
    /\ errno[2] = 0
    /\ code(mErr) = GPG_ERR_MISSING_ERRNO
    /\ ~hasSystemError(2)
    /\ hasSystemError(1)

\* Whether the table has an errno for code c.
HasEntry(c) ==
    \E r \in ErrnoRows : r[2] # 0 /\ c = GPG_ERR_SYSTEM_ERROR + r[1]
\* Whether the errno value n is in the table.
InTable(n) == \E r \in ErrnoRows : r[2] # 0 /\ r[2] = n

\* C19: for an errno value n the table holds and any source,
\* fromErrno(n, source).isError() and fromErrno(n, source).toErrno() = n;
\* for a code the table has no errno for, toErrno() is 0.
C19_ErrnoRoundTrip ==
    /\ (errOp = "fromErrno" /\ InTable(inCode)) =>
           isError(mErr) /\ toErrno(mErr) = inCode
    /\ ~HasEntry(code(mErr)) => toErrno(mErr) = 0
    /\ \A c \in SysCodes, src \in SysSources :
           ~HasEntry(c) => toErrno(gpgme_err_make(src, c)) = 0

\* fromErrno(EAGAIN, src) is an error whose toErrno() is EAGAIN.
C19_Witness ==
    /\ errOp = "fromErrno"
    /\ inCode = 11
    /\ code(mErr) = GPG_ERR_SYSTEM_ERROR + 6
    /\ toErrno(mErr) = 11

----------------------------------------------------------------------------
(* Message rendering of GpgME::Error (src/src/error.cpp): format_error,    *)
(* asString, asStdString.  A text is held as <<code, length>>: the first   *)
(* `length` characters of the description libgpg-error has for the code;   *)
(* every empty text is <<0, 0>>.  The description of a code does not       *)
(* change while the calls on one object are made.                          *)

\* How many rendering calls on one object are told apart.
MaxCalls == 3

\* char buffer[ 1024 ] of format_error.
BufSize == 1024

Text(c, length) == IF length = 0 THEN <<0, 0>> ELSE <<c, length>>
TextLen(str) == str[2]
\* std::string::empty().
empty(str) == TextLen(str) = 0

\* Description lengths around the buffer's size.
DescLens == {0, 5, BufSize - 2, BufSize - 1, BufSize, BufSize + 1}
\* The Error objects rendered: success, a cancel code, a system error.
MsgErrors ==
    {U32(0, GPG_ERR_NO_ERROR), gpgme_err_make(1, GPG_ERR_CANCELED),
     gpgme_err_make(1, GPG_ERR_SYSTEM_ERROR + 6)}

\* gpgme_strerror_r(err, buf, buflen) for a description of desc characters:
\* buf receives the description cut to buflen - 1 characters and a NUL.
gpgme_strerror_r(err, buflen, desc) ==
    Text(gpgme_err_code(err), IF desc < buflen - 1 THEN desc ELSE buflen - 1)

format_error_WholeBuffer(err) ==
    LET buffer == gpgme_strerror_r(err, BufSize + 1, descLen)
    IN  Text(buffer[1], IF TextLen(buffer) < BufSize THEN TextLen(buffer) ELSE BufSize)

\* format_error(err, str): the value str receives.  buffer[sizeof buffer - 1]
\* = '\0' ends the C string after at most BufSize - 1 characters.
format_error(err) ==
    LET buffer == gpgme_strerror_r(err, BufSize, descLen)
    IN  Text(buffer[1],
             IF TextLen(buffer) < BufSize - 1 THEN TextLen(buffer) ELSE BufSize - 1)

\* What a rendering call named name that returns str records.
Rendered(name, str) ==
    /\ msgOp' = name
    /\ shown' = str
    /\ firstShown' = IF calls = 0 THEN str ELSE firstShown
    /\ calls' = IF calls < MaxCalls THEN calls + 1 ELSE calls
    /\ UNCHANGED <<descLen, errVars, flagVars, splitVars, sysVars>>

\* Error::asString(): renders into mMessage if it is empty, returns it.
asString ==
    /\ mMessage' = IF empty(mMessage) THEN format_error(mErr) ELSE mMessage
    /\ Rendered("asString", mMessage')

\* Error::asStdString(): renders into a local string and returns it.
asStdString ==
    /\ UNCHANGED mMessage
    /\ Rendered("asStdString", format_error(mErr))

MsgNext == asString \/ asStdString

\* An Error object not rendered yet, and the length of the description of
\* its code; Flags() as in Init.
MsgInit ==
    /\ mErr \in MsgErrors
    /\ errOp = "ctor"
    /\ inCode = 0
    /\ inSrc = 0
    /\ Nb = UBits
    /\ mFlags = 0
    /\ op = "Flags()"
    /\ arg = 0
    /\ pre = 0
    /\ lst = <<>>
    /\ closed = TRUE
    /\ nullText = TRUE
    /\ text = <<>>
    /\ delimiter = 0
    /\ scan = 0
    /\ views = <<>>
    /\ splitPc = "returned"
    /\ errno = [t \in Threads |-> 0]
    /\ lastSet = [t \in Threads |-> 0]
    /\ lastOp = [t \in Threads |-> "start"]
    /\ reads = [t \in Threads |-> 0]
    /\ raced = [t \in Threads |-> FALSE]
    /\ who = 1
    /\ sysCode = [t \in Threads |-> <<>>]
    /\ mMessage = <<0, 0>>
    /\ descLen \in DescLens
    /\ msgOp = "ctor"
    /\ shown = <<0, 0>>
    /\ firstShown = <<0, 0>>
    /\ calls = 0
    /\ retRef = TRUE
    /\ retTmp = 0
    /\ chainLen = 0
    /\ apart = 0
    /\ last = [f \in FlagBits |-> FALSE]

\* Rendering calls on one Error object, in any order.
SpecMsg == MsgInit /\ [][MsgNext]_vars

----------------------------------------------------------------------------
(* The claim about message rendering (checked under SpecMsg).              *)

\* C20: every asString() and asStdString() call on an Error object, in any
\* order, returns the same text (the memoized text equals a fresh
\* rendering); the text has at most BufSize - 1 = 1023 characters, a longer
\* description being cut to exactly that length and a shorter one kept whole.
C20_RenderingIsIdempotentAndBounded ==
    calls > 0 =>
        /\ shown = firstShown
        /\ ~empty(mMessage) => mMessage = shown
        /\ shown = Text(code(mErr), TextLen(shown))
        /\ TextLen(shown) <= BufSize - 1
        /\ descLen > BufSize - 1 => TextLen(shown) = BufSize - 1
        /\ descLen <= BufSize - 1 => TextLen(shown) = descLen

\* A third call, asStdString() after a memoizing asString(), on an object
\* whose description is longer than the buffer: the text is cut to 1023.
C20_Witness ==
    /\ calls = MaxCalls
    /\ msgOp = "asStdString"
    /\ ~empty(mMessage)
    /\ descLen = BufSize + 1
    /\ TextLen(shown) = BufSize - 1
    /\ shown = mMessage

----------------------------------------------------------------------------
(* Further claims about GpgME::Flags (checked under SpecFlags).            *)

\* C22: reset(e) and set(e, false) both leave the stored integer equal to
\* m AND NOT(e) AND (2^_Nb - 1), m being the stored integer before: when m is
\* below 2^_Nb every bit outside e keeps its value, and when m has bits at
\* position _Nb or above those bits are cleared too, whether in e or not.
C22_ClearAlsoDropsHighBits ==
    op \in {"reset", "set0"} =>
        /\ mFlags = BitAnd(BitAnd(pre, NotU(arg)), Pow2(Nb) - 1)
        /\ InDomain(pre) =>
            \A i \in 0..(UBits - 1) :
                Bit(mFlags, i) = (IF Bit(arg, i) = 1 THEN 0 ELSE Bit(pre, i))
        /\ \A i \in Nb..(UBits - 1) : Bit(mFlags, i) = 0

\* set(e, false) with the lowest flag, on a set that held a bit at position
\* _Nb which is no bit of e: that bit is gone as well.
C22_Witness ==
    /\ op = "set0"
    /\ arg = 1
    /\ Nb < UBits
    /\ Bit(pre, Nb) = 1
    /\ Bit(pre, 1) = 1
    /\ mFlags = 2

----------------------------------------------------------------------------
(* Sequences of set / reset calls on one Flags object (src/src/flags.h,    *)
(* exercised by test_set_reset of src/tests/t-flags.cpp): each call is     *)
(* either a statement of its own, flags.set(f), or chained to the value    *)
(* the call before it returned, flags.set(f).reset(g).                     *)

\* The longest chained expression.
MaxChain == 4

\* The flags of the calls: the single-bit flags below bit _Nb.
SeqFlags == {Pow2(i) : i \in 0..(Nb - 1)}

\* The value of mFlags after set(flag, value), reset(flag) and reset() on a
\* Flags object that held m.
set_value(m, flag, value) ==
    IF value THEN or_assign_E(m, flag)
    ELSE and_assign(m, operator_not(FlagsOf(flag)))
reset_value(m, flag) == and_assign(m, operator_not(FlagsOf(flag)))
reset_all_value(m) == 0

Returns_ByValue(onObject, after) == <<FALSE, after>>

\* What set and reset return: Flags &, the object the call was made on.
\* <<TRUE, 0>> stands for the Flags object itself, <<FALSE, v>> for a
\* temporary that holds v.
Returns(onObject, after) == <<onObject, IF onObject THEN 0 ELSE after>>

\* The value the call named name with argument flag leaves in a Flags
\* object that held m.
value_after(name, flag, m) ==
    CASE name = "set" -> set_value(m, flag, TRUE)
      [] name = "set0" -> set_value(m, flag, FALSE)
      [] name = "reset" -> reset_value(m, flag)
      [] name = "reset()" -> reset_all_value(m)

\* One call.  A chained call acts on what the call before it returned, any
\* other call on the Flags object.
Call(name, flag, chained, touched) ==
    LET after(m) == value_after(name, flag, m)
        onObject == ~chained \/ retRef
        result == after(IF onObject THEN mFlags ELSE retTmp)
        ret == Returns(onObject, result)
    IN  /\ chained => (chainLen > 0 /\ chainLen < MaxChain)
        /\ mFlags' = IF onObject THEN result ELSE mFlags
        /\ retRef' = ret[1]
        /\ retTmp' = ret[2]
        /\ chainLen' = IF chained THEN chainLen + 1 ELSE 1
        /\ apart' = after(apart)
        /\ last' = touched
        /\ op' = name
        /\ arg' = flag
        /\ pre' = mFlags
        /\ lst' = <<>>
        /\ closed' = (closed /\ InDomain(flag))
        /\ UNCHANGED <<Nb, errVars, restVars>>

\* flags.set(flag, value), or ... .set(flag, value).
call_set(flag, value, chained) ==
    Call(IF value THEN "set" ELSE "set0", flag, chained,
         [last EXCEPT ![flag] = value])

\* flags.reset(flag), or ... .reset(flag).
call_reset(flag, chained) ==
    Call("reset", flag, chained, [last EXCEPT ![flag] = FALSE])

\* flags.reset(), or ... .reset().
call_reset_all(chained) ==
    Call("reset()", 0, chained, [f \in FlagBits |-> FALSE])

CallsNext ==
    \/ \E f \in SeqFlags, b \in BOOLEAN, chained \in BOOLEAN :
           call_set(f, b, chained)
    \/ \E f \in SeqFlags, chained \in BOOLEAN : call_reset(f, chained)
    \/ \E chained \in BOOLEAN : call_reset_all(chained)

\* An empty Flags object, then set / reset calls on it.
SpecCalls == Init /\ [][CallsNext]_vars

----------------------------------------------------------------------------
(* The claim about call sequences (checked under SpecCalls).               *)

\* C21: from the empty set, after any sequence of chained or separate calls
\* set(f), set(f, false), reset(f) and reset() with single-bit flags below
\* bit _Nb, test(f) is true iff the last call that touched f was set(f) with
\* value true (reset() touches every flag); a call on one flag leaves
\* test(g) as it was for every other flag g; and the chained calls leave the
\* same set as the same calls made one by one.
C21_LastTouchDecidesTest ==
    /\ \A f \in SeqFlags : test(mFlags, f) <=> last[f]
    /\ op \in {"set", "set0", "reset"} =>
           \A g \in SeqFlags \ {arg} : test(mFlags, g) <=> test(pre, g)
    /\ mFlags = apart

\* The chain set(A).set(B).reset().set(C) of the test: only C is set.
C21_Witness ==
    /\ chainLen = 4
    /\ op = "set"
    /\ arg = 4
    /\ pre = 0
    /\ mFlags = 4
    /\ last[4] /\ ~last[1] /\ ~last[2]

----------------------------------------------------------------------------
(* The claim about setSystemError (checked under SpecSysError).            *)

\* Whether c is the code gpgme_err_code_from_errno gives for c's errno: the
\* first row of the table that holds that errno.
FirstOfItsErrno(c) ==
    gpgme_err_code_from_errno(gpgme_err_code_to_errno(c)) = c

\* C23 as stated: after setSystemError(c) with a code c that has an errno,
\* fromSystemError(src).code() is c.
C23_MappedCodeComesBack ==
    \A t \in Threads, c \in SysCodes :
        (sysCode[t] = <<c>> /\ HasEntry(c) /\ JustRead(t)) => code(mErr) = c

\* C23, amended: setSystemError(c) stores gpgme_err_code_to_errno(c) in the
\* caller's errno.  For a code with an errno hasSystemError() is true
\* afterwards and fromSystemError(src).code() is the code of that errno:
\* it has the same errno as c, and it is c itself iff c is the first code
\* of its errno.  For a code with no errno, errno becomes 0,
\* hasSystemError() is false and fromSystemError(src).code() is
\* GPG_ERR_MISSING_ERRNO.
C23_ErrnoOfCodeComesBack ==
    \A t \in Threads, c \in SysCodes :
        sysCode[t] = <<c>> =>
            /\ errno[t] = gpgme_err_code_to_errno(c)
            /\ HasEntry(c) =>
                /\ hasSystemError(t)
                /\ JustRead(t) =>
                    /\ toErrno(mErr) = gpgme_err_code_to_errno(c)
                    /\ code(mErr) = c <=> FirstOfItsErrno(c)
            /\ ~HasEntry(c) =>
                /\ errno[t] = 0
                /\ ~hasSystemError(t)
                /\ JustRead(t) => code(mErr) = GPG_ERR_MISSING_ERRNO

\* setSystemError(GPG_ERR_EWOULDBLOCK), then fromSystemError: the code that
\* comes back is GPG_ERR_EAGAIN, whose errno is the same number.
C23_Witness ==
    /\ sysCode[1] = <<GPG_ERR_SYSTEM_ERROR + 138>>
    /\ JustRead(1)
    /\ errno[1] = 11
    /\ code(mErr) = GPG_ERR_SYSTEM_ERROR + 6

====
